---- MODULE Spec2Model ----
(***************************************************************************)
(* Volted/AI-Staff-Scheduler.                                              *)
(*                                                                         *)
(* Two programs share the request data model:                              *)
(*   - the Allocation Engine, scheduler/core.py generate_schedule          *)
(*     (mode = "core"): greedy allocation over tasks in start order,       *)
(*     merging oracle suggestions with a fairness-ranked fallback;         *)
(*   - the pipeline, main.py create_schedule -> Orchestrator ->            *)
(*     Planner / Executor (Lawyer, Scheduler) / Reviewer -> curation       *)
(*     (mode = "pipeline").                                                *)
(* Times are integer hours; confidences and quality scores are integer     *)
(* hundredths (0.5 is 50, 0.7 is 70).                                      *)
(***************************************************************************)
EXTENDS Integers, Sequences, FiniteSets, TLC

VARIABLES
    mode,               \* which program runs on the request: "core", "fallback",
                        \* "schedule", "needed_staff", "pipeline", "execute",
                        \* "orchestrate" or "concurrent"
    employees,          \* the request's employee list
    tasks,              \* the request's task list
    constraints,        \* the request's constraints: "json" when json.dumps
                        \* takes them, "unserialisable" when it raises
    \* ---- core.generate_schedule
    cpc,                \* position in generate_schedule
    oracle,             \* whether get_grok_suggestion returned a non-empty map
    idx,                \* position of the loop in sorted(tasks)
    task,               \* the loop variable: the task being processed
    needed,             \* needed_staff(task)
    assignments,        \* Dict[int, List[int]], task_id -> employee ids
    assigned_employees, \* set of committed employee ids
    candidates,         \* the candidate list of task
    preferred,          \* suggested.get(task.task_id, [])
    \* ---- pipeline
    phase,              \* position in create_schedule / process_schedule_request
    plan,               \* Plan.steps, a sequence of [step_number, tool]
    planAnswer,         \* the kind of answer the planning advisor gave
    stepIdx,            \* the plan step execute_plan is at
    passignments,       \* the executor's accumulator, List[Assignment]
    metadata,           \* the executor's metadata
    validation_result,  \* the last ValidationResult (or None)
    lawAnswer,          \* the kind of answer the compliance advisor gave last
    schedAnswer,        \* the answer the scheduling oracle gave last
    review,             \* the ReviewResult
    reviewAnswer,       \* the answer the review advisor gave
    response            \* the ScheduleResponse (or None)

coreVars == <<cpc, oracle, idx, task, needed, assignments, assigned_employees,
              candidates, preferred>>
pipeVars == <<phase, plan, planAnswer, stepIdx, passignments, metadata,
              validation_result, lawAnswer, schedAnswer, review, reviewAnswer, response>>
vars == <<mode, employees, tasks, constraints, coreVars, pipeVars>>

None == "None"

\* No response yet: process_schedule_request has not returned. The response is
\* a record everywhere else, so its absent value is a record too.
NoResponse == [none |-> TRUE]

\* ------------------------------------------------------------------ bounds
MaxEmployees == 2
MaxTasks == 2
MaxSuggestions == 2
MaxSteps == 2

MaxItems == 2

\* needed_staff is applied to customer_capacity 0..MaxCapacity and
\* required_capacity_per_staff 0..MaxPerStaff.
MaxCapacity == 30
MaxPerStaff == 6

\* ------------------------------------------------------------- data model
\* models.py Employee: the fields the engine reads.
EmployeeProfiles ==
    { [certifications |-> {1}, preferences |-> <<3>>,
       denied_requests_60_days |-> 0, previous_vacations_60_days |-> 0],
      [certifications |-> {1}, preferences |-> <<2, 3>>,
       denied_requests_60_days |-> 0, previous_vacations_60_days |-> 15],
      [certifications |-> {}, preferences |-> <<>>,
       denied_requests_60_days |-> 1, previous_vacations_60_days |-> 0] }

\* models.py Task: category, [start, end), capacity figures, certifications.
TaskProfiles ==
    { [category |-> 3, start |-> 0, end |-> 2, customer_capacity |-> 2,
       required_capacity_per_staff |-> 1, required_certifications |-> {1}],
      [category |-> 0, start |-> 1, end |-> 3, customer_capacity |-> 0,
       required_capacity_per_staff |-> 1, required_certifications |-> {}],
      [category |-> 2, start |-> 2, end |-> 3, customer_capacity |-> 3,
       required_capacity_per_staff |-> 2, required_certifications |-> {1}],
      [category |-> 3, start |-> 2, end |-> 3, customer_capacity |-> 1,
       required_capacity_per_staff |-> 0, required_certifications |-> {}] }

Range(s) == { s[i] : i \in DOMAIN s }

WithId(p, id) ==
    [employee_id |-> id, certifications |-> p.certifications,
     preferences |-> p.preferences,
     denied_requests_60_days |-> p.denied_requests_60_days,
     previous_vacations_60_days |-> p.previous_vacations_60_days]

WithTaskId(p, id) ==
    [task_id |-> id, category |-> p.category, start |-> p.start, end |-> p.end,
     customer_capacity |-> p.customer_capacity,
     required_capacity_per_staff |-> p.required_capacity_per_staff,
     required_certifications |-> p.required_certifications]

\* The employee_id of the employee at each position of the request's list:
\* ids are identifiers, listed in no particular order.
EmployeeIdAt == <<2, 1, 3, 4>>

\* Employee lists of length 0..MaxEmployees with distinct ids.
EmployeeLists(profiles) ==
    UNION { { [i \in 1..n |-> WithId(f[i], EmployeeIdAt[i])] : f \in [1..n -> profiles] }
            : n \in 0..MaxEmployees }

\* The task of task_id 0: the exclusive full-day vacation slot.
VacationTask ==
    [task_id |-> 0, category |-> 0, start |-> 0, end |-> 3, customer_capacity |-> 0,
     required_capacity_per_staff |-> 1, required_certifications |-> {}]

\* Task lists: 0..MaxTasks tasks of ids 1..n, followed or not by the task of
\* task_id 0.
TaskLists(profiles) ==
    UNION { UNION { { [i \in 1..n |-> WithTaskId(f[i], i)],
                      Append([i \in 1..n |-> WithTaskId(f[i], i)], VacationTask) }
                    : f \in [1..n -> profiles] }
            : n \in 0..MaxTasks }

\* An employee id that is in no pool, a task id that is in no request.
UnknownEmployee == Len(EmployeeIdAt) + 1
UnknownTask == MaxTasks + 1

EmployeeIds == { e.employee_id : e \in Range(employees) }
TaskIds == { t.task_id : t \in Range(tasks) }
EmployeeById(id) == CHOOSE e \in Range(employees) : e.employee_id = id
TaskById(id) == CHOOSE t \in Range(tasks) : t.task_id = id

\* ------------------------------------------------------------- validators
\* Mutant: the certification check is left out.
has_required_certs_Unchecked(employee, t) == TRUE

has_required_certs(employee, t) ==
    \A cert \in t.required_certifications : cert \in employee.certifications

\* needed_staff raises ZeroDivisionError exactly in this case.
needed_staff_raises(t) ==
    t.customer_capacity # 0 /\ t.required_capacity_per_staff = 0

Max2(a, b) == IF a >= b THEN a ELSE b

\* Mutant: the division rounds down.
needed_staff_Floor(t) ==
    IF t.customer_capacity = 0
    THEN t.required_capacity_per_staff
    ELSE Max2(1, t.customer_capacity \div t.required_capacity_per_staff)

needed_staff(t) ==
    IF t.customer_capacity = 0
    THEN t.required_capacity_per_staff
    ELSE Max2(1, (t.customer_capacity + t.required_capacity_per_staff - 1)
                    \div t.required_capacity_per_staff)

\* laws.py can_assign_vacation: false above 12 vacations in 60 days.
VacationLimit == 12
can_assign_vacation(employee_vacations_60_days) ==
    ~(employee_vacations_60_days > VacationLimit)

tasks_overlap(task1, task2) ==
    Max2(task1.start, task2.start) <
        (IF task1.end <= task2.end THEN task1.end ELSE task2.end)

\* ----------------------------------------------------------- sequences
\* Python's tuple comparison: lexicographic, on keys of equal length.
RECURSIVE KeyLess(_, _)
KeyLess(k1, k2) ==
    IF k1 = <<>> \/ k2 = <<>> THEN FALSE
    ELSE IF Head(k1) # Head(k2) THEN Head(k1) < Head(k2)
    ELSE KeyLess(Tail(k1), Tail(k2))

\* Python's sorted(): a stable sort. The elements are records with a field
\* key; x, which precedes all of s in the input, goes before the first
\* element whose key is not smaller than its own.
RECURSIVE InsertSorted(_, _)
InsertSorted(x, s) ==
    IF s = <<>> THEN <<x>>
    ELSE IF KeyLess(Head(s).key, x.key) THEN <<Head(s)>> \o InsertSorted(x, Tail(s))
    ELSE <<x>> \o s

\* Inserting from the last element to the first keeps equal keys in input order.
RECURSIVE StableSort(_)
StableSort(s) ==
    IF s = <<>> THEN <<>>
    ELSE InsertSorted(Head(s), StableSort(Tail(s)))

\* list.index: 0-based position of the first occurrence.
PyIndex(s, x) == (CHOOSE i \in DOMAIN s : s[i] = x /\ \A j \in 1..(i - 1) : s[j] # x) - 1

\* Sequences over S of length 0..n.
SeqsUpTo(S, n) == UNION { [1..k -> S] : k \in 0..n }

\* ------------------------------------------------- core.generate_schedule
\* sorted(tasks, key=lambda t: t.start)
SortedTasks ==
    LET keyed == [i \in DOMAIN tasks |-> [key |-> <<tasks[i].start>>, item |-> tasks[i]]]
        sorted == StableSort(keyed)
    IN [i \in DOMAIN sorted |-> sorted[i].item]

\* Mutant: the candidates are not filtered by assigned_employees.
Candidates_IgnoreCommitted(t, assigned) ==
    LET Keep(e) == has_required_certs(e, t)
    IN SelectSeq(employees, Keep)

\* [e for e in employees if e.employee_id not in assigned_employees
\*                          and has_required_certs(e, task)]
Candidates(t, assigned) ==
    LET Keep(e) == e.employee_id \notin assigned /\ has_required_certs(e, t)
    IN SelectSeq(employees, Keep)

\* Mutant: the loop over the oracle's list without the capacity check.
RECURSIVE TakePreferred_NoCapacity(_, _, _, _)
TakePreferred_NoCapacity(pref, cands, n, selected) ==
    IF pref = <<>> THEN selected
    ELSE LET found == \E i \in DOMAIN cands : cands[i].employee_id = Head(pref)
         IN IF found
            THEN TakePreferred_NoCapacity(Tail(pref), cands, n, Append(selected, Head(pref)))
            ELSE TakePreferred_NoCapacity(Tail(pref), cands, n, selected)

\* The loop over the oracle's list: an id is appended when an employee of
\* that id is among the candidates and the selection is not full.
RECURSIVE TakePreferred(_, _, _, _)
TakePreferred(pref, cands, n, selected) ==
    IF pref = <<>> THEN selected
    ELSE LET found == \E i \in DOMAIN cands : cands[i].employee_id = Head(pref)
         IN IF found /\ Len(selected) < n
            THEN TakePreferred(Tail(pref), cands, n, Append(selected, Head(pref)))
            ELSE TakePreferred(Tail(pref), cands, n, selected)

\* The sort key of the fallback fill.
RankKey(e, t) ==
    << IF t.category \in Range(e.preferences)
       THEN 0 - PyIndex(e.preferences, t.category)
       ELSE 999,
       0 - e.denied_requests_60_days,
       e.previous_vacations_60_days >>

Ranked(cands, t) ==
    LET keyed == [i \in DOMAIN cands |-> [key |-> RankKey(cands[i], t), item |-> cands[i]]]
        sorted == StableSort(keyed)
    IN [i \in DOMAIN sorted |-> sorted[i].item]

\* Mutant: a task is filled only when the candidates cover what it needs.
Fill_AllOrNothing(ranked, n, selected, assigned) ==
    IF Len(selected) + Len(ranked) < n THEN <<>>
    ELSE selected \o [i \in 1..(n - Len(selected)) |-> ranked[i].employee_id]

\* The loop over the ranked candidates: stops when the selection is full,
\* skips the employees committed meanwhile.
RECURSIVE Fill(_, _, _, _)
Fill(ranked, n, selected, assigned) ==
    IF ranked = <<>> \/ Len(selected) >= n THEN selected
    ELSE IF Head(ranked).employee_id \notin assigned
         THEN Fill(Tail(ranked), n, Append(selected, Head(ranked).employee_id),
                   assigned \cup {Head(ranked).employee_id})
         ELSE Fill(Tail(ranked), n, selected, assigned)

\* Lines 29-47: the selection for t, given the oracle's list for it.
Select(t, pref, cands, n, assigned) ==
    LET fromOracle == TakePreferred(pref, cands, n, <<>>)
    IN Fill(Ranked(cands, t), n, fromOracle, assigned \cup Range(fromOracle))

\* The lists the oracle may give for a task: over the ids of the first two
\* positions of a pool and an id of no pool, repetitions included.
SuggestedIds == {EmployeeIdAt[1], EmployeeIdAt[2], UnknownEmployee}
SuggestionLists == SeqsUpTo(SuggestedIds, MaxSuggestions)

PipeIdle ==
    /\ plan = <<>> /\ planAnswer = None /\ stepIdx = 0
    /\ passignments = <<>> /\ metadata = None /\ validation_result = None
    /\ lawAnswer = None /\ schedAnswer = None /\ review = None
    /\ reviewAnswer = None /\ response = NoResponse

CoreIdle ==
    /\ cpc = "idle" /\ oracle = None /\ idx = 0 /\ task = None /\ needed = 0
    /\ assignments = <<>> /\ assigned_employees = {}
    /\ candidates = <<>> /\ preferred = <<>>

InitCore ==
    /\ mode = "core" /\ constraints = "json"
    /\ employees \in EmployeeLists(EmployeeProfiles)
    /\ tasks \in TaskLists(TaskProfiles)
    /\ cpc = "start" /\ oracle = None /\ idx = 0 /\ task = None /\ needed = 0
    /\ assignments = <<>> /\ assigned_employees = {}
    /\ candidates = <<>> /\ preferred = <<>>
    /\ phase = "idle" /\ PipeIdle

\* Lines 12-19: the vacation task lookup (StopIteration when no task has
\* task_id 0), the oracle call, the empty assignment map.  The mapping of
\* get_grok_suggestion is taken as the empty one or any mapping of the shape
\* its last line builds, {task_id: employee_ids}.
CoreStart ==
    /\ mode = "core" /\ cpc = "start"
    /\ IF 0 \notin TaskIds
       THEN /\ cpc' = "StopIteration"
            /\ UNCHANGED <<oracle, idx, assignments>>
       ELSE /\ cpc' = "head"
            /\ oracle' \in {"none", "some"}
            /\ idx' = 1
            /\ assignments' = [tid \in TaskIds |-> <<>>]
    /\ UNCHANGED <<mode, employees, tasks, constraints, task, needed, assigned_employees,
                   candidates, preferred, pipeVars>>

\* Lines 21-26: the next task of sorted(tasks); task 0 is skipped; needed and
\* the candidate list are computed.
LoopHead ==
    /\ mode = "core" /\ cpc \in {"head", "committed"} /\ idx <= Len(tasks)
    /\ task' = SortedTasks[idx]
    /\ preferred' = <<>>
    /\ IF task'.task_id = 0
       THEN /\ idx' = idx + 1
            /\ cpc' = "head"
            /\ UNCHANGED <<needed, candidates>>
       ELSE IF needed_staff_raises(task')
       THEN /\ cpc' = "ZeroDivisionError"
            /\ UNCHANGED <<idx, needed, candidates>>
       ELSE /\ needed' = needed_staff(task')
            /\ candidates' = Candidates(task', assigned_employees)
            /\ cpc' = "body"
            /\ idx' = idx
    /\ UNCHANGED <<mode, employees, tasks, constraints, oracle, assignments, assigned_employees, pipeVars>>

\* Mutant: a list of suggestions is consumed even when the oracle gave none.
Allocate_OracleLeaks ==
    /\ mode = "core" /\ cpc = "body"
    /\ \E pref \in SuggestionLists :
          LET selected == Select(task, pref, candidates, needed, assigned_employees) IN
          /\ preferred' = pref
          /\ assignments' = [assignments EXCEPT ![task.task_id] = selected]
          /\ assigned_employees' = assigned_employees \cup Range(selected)
    /\ idx' = idx + 1
    /\ cpc' = "committed"
    /\ UNCHANGED <<mode, employees, tasks, constraints, oracle, task, needed, candidates, pipeVars>>

\* Lines 29-49: the oracle's list for the task is consumed, the rest is
\* filled from the ranked candidates, the selection is committed.
Allocate ==
    /\ mode = "core" /\ cpc = "body"
    /\ \E pref \in (IF oracle = "some" THEN SuggestionLists ELSE {<<>>}) :
          LET selected == Select(task, pref, candidates, needed, assigned_employees) IN
          /\ preferred' = pref
          /\ assignments' = [assignments EXCEPT ![task.task_id] = selected]
          /\ assigned_employees' = assigned_employees \cup Range(selected)
    /\ idx' = idx + 1
    /\ cpc' = "committed"
    /\ UNCHANGED <<mode, employees, tasks, constraints, oracle, task, needed, candidates, pipeVars>>

\* Lines 51-61: the vacation entry is emptied and the schedule returned.
CoreFinish ==
    /\ mode = "core" /\ cpc \in {"head", "committed"} /\ idx > Len(tasks)
    /\ assignments' = [assignments EXCEPT ![0] = <<>>]
    /\ cpc' = "done"
    /\ UNCHANGED <<mode, employees, tasks, constraints, oracle, idx, task, needed,
                   assigned_employees, candidates, preferred, pipeVars>>

CoreNext == CoreStart \/ LoopHead \/ Allocate \/ CoreFinish

\* ------------------------------------------------ scheduler/scheduler.py
\* Assignment(task_id, employee_id, confidence); employee_name is left out.
Assignment(tid, eid, conf) == [task_id |-> tid, employee_id |-> eid, confidence |-> conf]

\* Mutant: the constructor takes every confidence.
ConfidenceValid_Unchecked(conf) == TRUE

\* confidence: float = Field(ge=0.0, le=1.0): the constructor raises outside.
ConfidenceValid(conf) == conf >= 0 /\ conf <= 100

\* The confidence of a fallback assignment (0.6).
FallbackConfidence == 60

\* Mutant: only the employee at employee_idx is tried for a task.
RECURSIVE FallbackLoop_NoSearch(_, _, _)
FallbackLoop_NoSearch(ti, employee_idx, acc) ==
    IF ti > Len(tasks) THEN acc
    ELSE LET t == tasks[ti]
             n == Len(employees)
             first == employees[(employee_idx % n) + 1]
         IN IF \A cert \in t.required_certifications : cert \in first.certifications
            THEN FallbackLoop_NoSearch(ti + 1, (employee_idx + 1) % n,
                     Append(acc, [task_id |-> t.task_id, employee_id |-> first.employee_id,
                                  confidence |-> 60]))
            ELSE FallbackLoop_NoSearch(ti + 1, employee_idx, acc)

\* The loop of _create_fallback_schedule over request.tasks from position ti:
\* the first certified employee in round-robin order from employee_idx.
RECURSIVE FallbackLoop(_, _, _)
FallbackLoop(ti, employee_idx, acc) ==
    IF ti > Len(tasks) THEN acc
    ELSE LET t == tasks[ti]
             n == Len(employees)
             At(i) == employees[((employee_idx + i) % n) + 1]
             hits == { i \in 0..(n - 1) :
                         \A cert \in t.required_certifications :
                            cert \in At(i).certifications }
         IN IF hits = {}
            THEN FallbackLoop(ti + 1, employee_idx, acc)
            ELSE LET i == CHOOSE h \in hits : \A g \in hits : h <= g
                 IN FallbackLoop(ti + 1, (employee_idx + i + 1) % n,
                       Append(acc, Assignment(t.task_id, At(i).employee_id,
                                              FallbackConfidence)))

create_fallback_schedule ==
    IF employees = <<>> \/ tasks = <<>> THEN <<>> ELSE FallbackLoop(1, 0, <<>>)

\* Mutant: an item that cannot be read is skipped and the rest is kept.
RECURSIVE ParseItems_SkipBad(_, _)
ParseItems_SkipBad(items, acc) ==
    IF items = <<>> THEN [raised |-> FALSE, value |-> acc]
    ELSE LET item == Head(items) IN
         IF item.shape # "assignment" THEN ParseItems_SkipBad(Tail(items), acc)
         ELSE IF ~(item.confidence >= 0 /\ item.confidence <= 100)
              THEN ParseItems_SkipBad(Tail(items), acc)
         ELSE ParseItems_SkipBad(Tail(items),
                 Append(acc, [task_id |-> item.task_id, employee_id |-> item.employee_id,
                              confidence |-> item.confidence]))

\* The loop of _parse_assignments over the oracle's items: an item without
\* both keys is skipped, and so is a text item, in which the two key names
\* do not occur; an item that is a number, or whose Assignment cannot be
\* constructed, raises.
RECURSIVE ParseItems(_, _)
ParseItems(items, acc) ==
    IF items = <<>> THEN [raised |-> FALSE, value |-> acc]
    ELSE LET item == Head(items) IN
         IF item.shape = "notobject" THEN [raised |-> TRUE, value |-> <<>>]
         ELSE IF item.shape \in {"nokeys", "text"} THEN ParseItems(Tail(items), acc)
         ELSE IF ~ConfidenceValid(item.confidence) THEN [raised |-> TRUE, value |-> <<>>]
         ELSE ParseItems(Tail(items),
                 Append(acc, Assignment(item.task_id, item.employee_id, item.confidence)))

\* _parse_assignments: every exception of the parse gives the empty list.
parse_assignments(answer) ==
    IF answer.kind \in {"none", "garbage"} THEN <<>>
    ELSE LET r == ParseItems(answer.items, <<>>)
         IN IF r.raised THEN <<>> ELSE r.value

\* Scheduler.generate_schedule: the fallback schedule when the call raises.
scheduler_generate_schedule(answer) ==
    IF answer.kind = "error" THEN create_fallback_schedule
    ELSE parse_assignments(answer)

\* --------------------------------------------------- scheduler/planner.py
\* Mutant: the fallback plan schedules first and validates afterwards.
FallbackSteps_ScheduleFirst ==
    << [step_number |-> 1, tool |-> "scheduler"], [step_number |-> 2, tool |-> "lawyer"] >>

FallbackSteps ==
    << [step_number |-> 1, tool |-> "lawyer"], [step_number |-> 2, tool |-> "scheduler"] >>

create_fallback_plan == [valid |-> TRUE, strategy |-> "fallback", steps |-> FallbackSteps]

\* Mutant: text that is not JSON is read as a plan without steps.
parse_plan_response_NoFallback(answer) ==
    CASE answer.kind = "none" -> [raised |-> TRUE, value |-> create_fallback_plan]
      [] answer.kind = "invalid" ->
            [raised |-> FALSE, value |-> [valid |-> FALSE, strategy |-> "oracle", steps |-> <<>>]]
      [] answer.kind = "garbage" ->
            [raised |-> FALSE, value |-> [valid |-> TRUE, strategy |-> "oracle", steps |-> <<>>]]
      [] OTHER -> [raised |-> FALSE,
                   value |-> [valid |-> TRUE, strategy |-> "oracle",
                              steps |-> [i \in DOMAIN answer.tools |->
                                           [step_number |-> i, tool |-> answer.tools[i]]]]]

\* _parse_plan_response: only json.JSONDecodeError is caught here. The data
\* is valid when Plan(**plan_data) accepts it.
parse_plan_response(answer) ==
    CASE answer.kind = "none" -> [raised |-> TRUE, value |-> create_fallback_plan]
      [] answer.kind = "garbage" -> [raised |-> FALSE, value |-> create_fallback_plan]
      [] answer.kind = "invalid" ->
            [raised |-> FALSE, value |-> [valid |-> FALSE, strategy |-> "oracle", steps |-> <<>>]]
      [] OTHER -> [raised |-> FALSE,
                   value |-> [valid |-> TRUE, strategy |-> "oracle",
                              steps |-> [i \in DOMAIN answer.tools |->
                                           [step_number |-> i, tool |-> answer.tools[i]]]]]

\* Mutant: only the exceptions of the call itself are handled.
create_plan_Uncaught(answer) ==
    IF answer.kind = "error" THEN [raised |-> FALSE, value |-> create_fallback_plan]
    ELSE LET r == parse_plan_response(answer)
         IN IF ~r.raised /\ ~r.value.valid
            THEN [raised |-> TRUE, value |-> create_fallback_plan]
            ELSE r

\* Planner.create_plan: the call, the parse and Plan(**plan_data) are inside
\* one try whose handler returns the fallback plan.
create_plan(answer) ==
    IF answer.kind = "error" THEN [raised |-> FALSE, value |-> create_fallback_plan]
    ELSE LET r == parse_plan_response(answer)
         IN IF r.raised \/ ~r.value.valid
            THEN [raised |-> FALSE, value |-> create_fallback_plan]
            ELSE r

\* ---------------------------------------------------- scheduler/lawyer.py
ValidationResult(valid, violations, warnings) ==
    [is_valid |-> valid, violations |-> violations, warnings |-> warnings]

\* _parse_validation: fail open when the text cannot be parsed.
parse_validation(answer) ==
    IF answer.kind \in {"none", "garbage"}
    THEN ValidationResult(TRUE, <<>>, <<"Could not parse validation">>)
    ELSE ValidationResult(answer.is_valid, answer.violations, <<>>)

\* Lawyer.validate_constraints
validate_constraints(answer) ==
    IF answer.kind = "error"
    THEN ValidationResult(FALSE, <<"Validation error">>, <<"Could not complete validation">>)
    ELSE parse_validation(answer)

\* -------------------------------------------------- scheduler/reviewer.py
ReviewResult(approved, score, issues) ==
    [approved |-> approved, quality_score |-> score, issues |-> issues]

\* quality_score: float = Field(ge=0.0, le=1.0)
ScoreValid(score) == score >= 0 /\ score <= 100

\* _parse_review: approved and 0.7 when the text cannot be parsed or the
\* ReviewResult cannot be constructed.
parse_review(answer) ==
    IF answer.kind \in {"none", "garbage"} \/ ~ScoreValid(answer.quality_score)
    THEN ReviewResult(TRUE, 70, <<"Parse error">>)
    ELSE ReviewResult(answer.approved, answer.quality_score, answer.issues)

\* Mutant: the review fails closed when the call raises.
review_schedule_FailClosed(answer) ==
    IF answer.kind = "error"
    THEN [raised |-> FALSE, value |-> ReviewResult(FALSE, 50, <<"Review error">>)]
    ELSE [raised |-> FALSE, value |-> parse_review(answer)]

\* Reviewer.review_schedule: fail open, 0.5, when the call raises.
review_schedule(answer) ==
    IF answer.kind = "error"
    THEN [raised |-> FALSE, value |-> ReviewResult(TRUE, 50, <<"Review error">>)]
    ELSE [raised |-> FALSE, value |-> parse_review(answer)]

\* ---------------------------------------------- scheduler/orchestrator.py
\* The review score under which low-confidence assignments are filtered (0.7)
\* and the confidence an assignment needs to survive the filter (0.5).
QualityThreshold == 70
ConfidenceThreshold == 50

\* Mutant: the filter keeps only what is above the fallback's confidence.
KeepConfident_AboveFallback(a) == a.confidence > FallbackConfidence

KeepConfident(a) == a.confidence >= ConfidenceThreshold

\* Mutant: the filter also applies at a score of exactly 0.7.
Filtered_Inclusive(assigned, rev) ==
    IF rev.quality_score <= QualityThreshold
    THEN SelectSeq(assigned, KeepConfident)
    ELSE assigned

Filtered(assigned, rev) ==
    IF rev.quality_score < QualityThreshold
    THEN SelectSeq(assigned, KeepConfident)
    ELSE assigned

\* Mutant: success is computed from the list before the filter.
curate_response_PreFilter(assigned, rev, meta) ==
    LET kept == Filtered(assigned, rev)
    IN [assignments |-> kept,
        metadata |-> [plan_strategy |-> meta.plan_strategy,
                      steps_executed |-> meta.steps_executed,
                      tool_calls |-> meta.tool_calls,
                      quality_score |-> rev.quality_score,
                      review_approved |-> rev.approved],
        warnings |-> rev.issues,
        success |-> rev.approved /\ Len(assigned) > 0]

\* Orchestrator._curate_response
curate_response(assigned, rev, meta) ==
    LET kept == Filtered(assigned, rev)
        warnings ==
            (IF ~rev.approved THEN <<"Schedule did not pass quality review">> ELSE <<>>)
            \o rev.issues
            \o (IF Len(kept) < Len(assigned) THEN <<"Filtered low-confidence assignments">>
                ELSE <<>>)
    IN [assignments |-> kept,
        metadata |-> [plan_strategy |-> meta.plan_strategy,
                      steps_executed |-> meta.steps_executed,
                      tool_calls |-> meta.tool_calls,
                      quality_score |-> rev.quality_score,
                      review_approved |-> rev.approved],
        warnings |-> warnings,
        success |-> rev.approved /\ Len(kept) > 0]

\* The response of process_schedule_request's exception handler.
failure_response ==
    [assignments |-> <<>>, metadata |-> [error |-> "error"],
     warnings |-> <<"Scheduling failed">>, success |-> FALSE]

\* ------------------------------------------------------ advisors' answers
\* An advisory call raises ("error"), answers no text ("none"), text that is
\* not JSON ("garbage"), or JSON.
PlanAnswers ==
    { [kind |-> k] : k \in {"error", "none", "garbage", "invalid"} }
    \cup { [kind |-> "json", tools |-> ts] :
             ts \in SeqsUpTo({"lawyer", "scheduler", "other"}, MaxSteps) }

LawAnswers ==
    { [kind |-> k] : k \in {"error", "garbage"} }
    \cup { [kind |-> "json", is_valid |-> v, violations |-> vs] :
             v \in BOOLEAN, vs \in {<<>>, <<"violation">>} }

\* The items of the scheduling oracle's list: well-formed ones (a pair of the
\* request at high confidence, another at low confidence, a pair of ids the
\* request does not hold) and malformed ones.
WellFormedItems ==
    { [shape |-> "assignment", task_id |-> 1, employee_id |-> EmployeeIdAt[1],
       confidence |-> 90],
      [shape |-> "assignment", task_id |-> 0, employee_id |-> EmployeeIdAt[1],
       confidence |-> 30],
      [shape |-> "assignment", task_id |-> UnknownTask, employee_id |-> UnknownEmployee,
       confidence |-> 90] }

MalformedItems ==
    { [shape |-> "assignment", task_id |-> 1, employee_id |-> EmployeeIdAt[2],
       confidence |-> 150],
      [shape |-> "nokeys"],
      [shape |-> "text"],
      [shape |-> "notobject"] }

SchedAnswersOver(lists) ==
    { [kind |-> k] : k \in {"error", "none", "garbage"} }
    \cup { [kind |-> "json", items |-> its] : its \in lists }

\* In the pipeline the oracle's lists are the well-formed ones of up to two
\* items; applied on its own, generate_schedule gets every list.
PipeItemLists == SeqsUpTo(WellFormedItems, 2)
ItemLists == SeqsUpTo(WellFormedItems \cup MalformedItems, MaxItems)

ReviewAnswers ==
    { [kind |-> k] : k \in {"error", "garbage"} }
    \cup { [kind |-> "json", approved |-> a, quality_score |-> q, issues |-> <<>>] :
             a \in BOOLEAN, q \in {40, 90, 150} }

\* ------------------------------------------------------------ the pipeline
\* The employees and tasks of a pipeline request: the fields the pipeline
\* never reads keep the defaults of models.py.
PipeTask ==
    [category |-> 3, start |-> 0, end |-> 2, customer_capacity |-> 0,
     required_capacity_per_staff |-> 1, required_certifications |-> {1}]

Certified ==
    [certifications |-> {1}, preferences |-> <<>>,
     denied_requests_60_days |-> 0, previous_vacations_60_days |-> 0]

Uncertified ==
    [certifications |-> {}, preferences |-> <<>>,
     denied_requests_60_days |-> 0, previous_vacations_60_days |-> 0]

PipeEmployeeLists ==
    { <<>>,
      <<WithId(Certified, EmployeeIdAt[1])>>,
      <<WithId(Uncertified, EmployeeIdAt[1])>>,
      <<WithId(Uncertified, EmployeeIdAt[1]), WithId(Certified, EmployeeIdAt[2])>> }

PipeTaskLists ==
    { <<>>, <<WithTaskId(PipeTask, 1)>>, <<WithTaskId(PipeTask, 1), VacationTask>> }

InitPipe ==
    /\ mode = "pipeline" /\ constraints = "json"
    /\ employees \in PipeEmployeeLists
    /\ tasks \in PipeTaskLists
    /\ phase = "received" /\ PipeIdle
    /\ CoreIdle

\* Mutant: the request goes to the orchestrator unchecked.
Receive_Unchecked ==
    /\ mode = "pipeline" /\ phase = "received"
    /\ phase' = "PLAN"
    /\ UNCHANGED <<mode, employees, tasks, constraints, coreVars, plan, planAnswer, stepIdx,
                   passignments, metadata, validation_result, lawAnswer, schedAnswer,
                   review, reviewAnswer, response>>

\* main.py create_schedule: an empty employee or task list is answered with
\* HTTP 400 before the orchestrator is called.
Receive ==
    /\ mode = "pipeline" /\ phase = "received"
    /\ phase' = IF employees = <<>> \/ tasks = <<>> THEN "rejected" ELSE "PLAN"
    /\ UNCHANGED <<mode, employees, tasks, constraints, coreVars, plan, planAnswer, stepIdx,
                   passignments, metadata, validation_result, lawAnswer, schedAnswer,
                   review, reviewAnswer, response>>

\* process_schedule_request's exception handler.
Fail ==
    /\ phase' = "FAILED"
    /\ response' = failure_response

\* Step 1: Planner.create_plan; then execute_plan's first lines 23-30.
PlanStage ==
    /\ mode \in {"pipeline", "orchestrate"} /\ phase = "PLAN"
    /\ constraints = "json"
    /\ \E answer \in PlanAnswers :
          LET r == create_plan(answer) IN
          /\ planAnswer' = answer.kind
          /\ IF r.raised
             THEN /\ Fail
                  /\ UNCHANGED <<plan, stepIdx, metadata>>
             ELSE /\ phase' = "EXECUTE"
                  /\ plan' = r.value.steps
                  /\ metadata' = [plan_strategy |-> r.value.strategy,
                                  steps_executed |-> <<>>, tool_calls |-> 0]
                  /\ stepIdx' = 1
                  /\ UNCHANGED response
    /\ UNCHANGED <<mode, employees, tasks, constraints, coreVars, passignments, validation_result,
                   lawAnswer, schedAnswer, review, reviewAnswer>>

\* Step 1 when _build_planning_prompt raises: the prompt is built outside
\* create_plan's try (planner.py 22), json.dumps(request.constraints) raises
\* and process_schedule_request's handler answers.
PlanRaises ==
    /\ mode \in {"pipeline", "orchestrate"} /\ phase = "PLAN"
    /\ constraints = "unserialisable"
    /\ Fail
    /\ UNCHANGED <<mode, employees, tasks, constraints, coreVars, plan, planAnswer, stepIdx,
                   passignments, metadata, validation_result, lawAnswer, schedAnswer,
                   review, reviewAnswer>>

\* execute_plan, a step whose tool is "lawyer" (lines 36-50).
LawyerStep ==
    /\ mode \in {"pipeline", "orchestrate", "execute"} /\ phase = "EXECUTE" /\ stepIdx <= Len(plan)
    /\ constraints = "json"
    /\ plan[stepIdx].tool = "lawyer"
    /\ stepIdx' = stepIdx + 1
    /\ \E answer \in LawAnswers :
          LET result == validate_constraints(answer) IN
          /\ lawAnswer' = answer.kind
          /\ validation_result' = result
          /\ metadata' = [metadata EXCEPT
                 !.steps_executed = Append(@,
                     [step |-> plan[stepIdx].step_number, tool |-> "lawyer",
                      result |-> IF result.is_valid THEN "valid" ELSE "invalid",
                      count |-> 0]),
                 !.tool_calls = @ + 1]
    /\ UNCHANGED <<mode, employees, tasks, constraints, coreVars, phase, plan, planAnswer,
                   passignments, schedAnswer, review, reviewAnswer, response>>

\* execute_plan, a step whose tool is "scheduler" (lines 52-63): the result
\* replaces the accumulator.
SchedulerStep ==
    /\ mode \in {"pipeline", "orchestrate", "execute"} /\ phase = "EXECUTE" /\ stepIdx <= Len(plan)
    /\ constraints = "json"
    /\ plan[stepIdx].tool = "scheduler"
    /\ stepIdx' = stepIdx + 1
    /\ \E answer \in SchedAnswersOver(PipeItemLists) :
          LET result == scheduler_generate_schedule(answer) IN
          /\ schedAnswer' = answer
          /\ passignments' = result
          /\ metadata' = [metadata EXCEPT
                 !.steps_executed = Append(@,
                     [step |-> plan[stepIdx].step_number, tool |-> "scheduler",
                      result |-> "assignments", count |-> Len(result)]),
                 !.tool_calls = @ + 1]
    /\ UNCHANGED <<mode, employees, tasks, constraints, coreVars, phase, plan, planAnswer,
                   validation_result, lawAnswer, review, reviewAnswer, response>>

\* execute_plan, a step of any other tool (lines 65-66): a log line only.
UnknownToolStep ==
    /\ mode \in {"pipeline", "orchestrate", "execute"} /\ phase = "EXECUTE" /\ stepIdx <= Len(plan)
    /\ plan[stepIdx].tool \notin {"lawyer", "scheduler"}
    /\ stepIdx' = stepIdx + 1
    /\ UNCHANGED <<mode, employees, tasks, constraints, coreVars, phase, plan, planAnswer,
                   passignments, metadata, validation_result, lawAnswer, schedAnswer,
                   review, reviewAnswer, response>>

\* Mutant: the exception of a step leaves execute_plan's loop.
StepRaises_Abort ==
    /\ mode \in {"pipeline", "orchestrate", "execute"} /\ phase = "EXECUTE" /\ stepIdx <= Len(plan)
    /\ plan[stepIdx].tool \in {"lawyer", "scheduler"}
    /\ constraints = "unserialisable"
    /\ metadata' = [metadata EXCEPT
           !.steps_executed = Append(@,
               [step |-> plan[stepIdx].step_number, tool |-> plan[stepIdx].tool,
                error |-> "TypeError"])]
    /\ stepIdx' = Len(plan) + 1
    /\ UNCHANGED <<mode, employees, tasks, constraints, coreVars, phase, plan, planAnswer,
                   passignments, validation_result, lawAnswer, schedAnswer,
                   review, reviewAnswer, response>>

\* execute_plan, a step whose tool raises (lines 68-74): the prompt of the
\* tool is built outside its try and json.dumps(request.constraints) raises.
\* The error is recorded and the loop goes on.
StepRaises ==
    /\ mode \in {"pipeline", "orchestrate", "execute"} /\ phase = "EXECUTE" /\ stepIdx <= Len(plan)
    /\ plan[stepIdx].tool \in {"lawyer", "scheduler"}
    /\ constraints = "unserialisable"
    /\ metadata' = [metadata EXCEPT
           !.steps_executed = Append(@,
               [step |-> plan[stepIdx].step_number, tool |-> plan[stepIdx].tool,
                error |-> "TypeError"])]
    /\ stepIdx' = stepIdx + 1
    /\ UNCHANGED <<mode, employees, tasks, constraints, coreVars, phase, plan, planAnswer,
                   passignments, validation_result, lawAnswer, schedAnswer,
                   review, reviewAnswer, response>>

\* execute_plan returns (line 76): to process_schedule_request, or to the
\* caller of execute_plan.
ExecuteDone ==
    /\ mode \in {"pipeline", "orchestrate", "execute"} /\ phase = "EXECUTE" /\ stepIdx > Len(plan)
    /\ phase' = IF mode = "execute" THEN "RETURNED" ELSE "REVIEW"
    /\ UNCHANGED <<mode, employees, tasks, constraints, coreVars, plan, planAnswer, stepIdx,
                   passignments, metadata, validation_result, lawAnswer, schedAnswer,
                   review, reviewAnswer, response>>

\* Step 3: Reviewer.review_schedule.
ReviewStage ==
    /\ mode \in {"pipeline", "orchestrate"} /\ phase = "REVIEW"
    /\ \E answer \in ReviewAnswers :
          LET r == review_schedule(answer) IN
          /\ IF r.raised
             THEN /\ Fail
                  /\ UNCHANGED review
             ELSE /\ phase' = "CURATE"
                  /\ review' = r.value
                  /\ UNCHANGED response
          /\ reviewAnswer' = answer
    /\ UNCHANGED <<mode, employees, tasks, constraints, coreVars, plan, planAnswer, stepIdx,
                   passignments, metadata, validation_result, lawAnswer, schedAnswer>>

\* Step 4: _curate_response; the response is returned.
CurateStage ==
    /\ mode \in {"pipeline", "orchestrate"} /\ phase = "CURATE"
    /\ phase' = "CURATED"
    /\ response' = curate_response(passignments, review, metadata)
    /\ UNCHANGED <<mode, employees, tasks, constraints, coreVars, plan, planAnswer, stepIdx,
                   passignments, metadata, validation_result, lawAnswer, schedAnswer,
                   review, reviewAnswer>>

PipeNext ==
    \/ Receive \/ PlanStage \/ LawyerStep \/ SchedulerStep \/ UnknownToolStep
    \/ ExecuteDone \/ ReviewStage \/ CurateStage

\* ------------------------------------------ Executor.execute_plan, applied
\* to every plan of up to MaxSteps steps and to requests whose constraints
\* json.dumps may refuse.
Plans ==
    { [i \in DOMAIN ts |-> [step_number |-> i, tool |-> ts[i]]] :
        ts \in SeqsUpTo({"lawyer", "scheduler", "other"}, MaxSteps) }

InitExecute ==
    /\ mode = "execute"
    /\ employees \in PipeEmployeeLists
    /\ tasks \in PipeTaskLists
    /\ constraints \in {"json", "unserialisable"}
    /\ plan \in Plans
    /\ phase = "EXECUTE" /\ stepIdx = 1
    /\ metadata = [plan_strategy |-> "given", steps_executed |-> <<>>, tool_calls |-> 0]
    /\ planAnswer = None /\ passignments = <<>> /\ validation_result = None
    /\ lawAnswer = None /\ schedAnswer = None /\ review = None
    /\ reviewAnswer = None /\ response = NoResponse
    /\ CoreIdle

ExecNext ==
    \/ LawyerStep \/ SchedulerStep \/ UnknownToolStep \/ StepRaises \/ ExecuteDone

\* ------------------------- Orchestrator.process_schedule_request, called
\* with a ScheduleRequest built in Python: constraints is Dict[str, Any] and
\* may hold values json.dumps refuses.
InitOrchestrate ==
    /\ mode = "orchestrate"
    /\ employees \in PipeEmployeeLists
    /\ tasks \in PipeTaskLists
    /\ constraints \in {"json", "unserialisable"}
    /\ phase = "PLAN" /\ PipeIdle
    /\ CoreIdle

OrchNext ==
    \/ PlanStage \/ PlanRaises \/ LawyerStep \/ SchedulerStep \/ UnknownToolStep
    \/ ExecuteDone \/ ReviewStage \/ CurateStage

\* ------------------- two process_schedule_request runs on one Orchestrator
\* In mode "concurrent" every pipeline variable holds one value per run: the
\* runs are coroutines of one event loop and are interleaved at their awaits.
\* planAnswer, lawAnswer, schedAnswer and reviewAnswer log the answers each
\* run was given.
Runs == {1, 2}

\* Mutant: the executor keeps its working state on the instance, which the
\* runs share.
Frame_OnInstance(i) == 1

\* plan, metadata, assignments, validation_result and review are local
\* variables of the coroutine: each run has them in its own frame. Neither
\* Orchestrator nor Executor assigns an attribute after __init__.
Frame(i) == i

ConcPlanAnswers ==
    { [kind |-> "error"],
      [kind |-> "json", tools |-> <<"scheduler">>],
      [kind |-> "json", tools |-> <<"scheduler", "lawyer">>] }

ConcLawAnswers ==
    { [kind |-> "error"], [kind |-> "json", is_valid |-> TRUE, violations |-> <<>>] }

ConcSchedAnswers ==
    { [kind |-> "error"],
      [kind |-> "json", items |-> <<[shape |-> "assignment", task_id |-> 1,
                                     employee_id |-> EmployeeIdAt[1], confidence |-> 90]>>],
      [kind |-> "json", items |-> <<[shape |-> "assignment", task_id |-> 0,
                                     employee_id |-> EmployeeIdAt[1], confidence |-> 30]>>] }

ConcReviewAnswers ==
    { [kind |-> "error"],
      [kind |-> "json", approved |-> FALSE, quality_score |-> 90, issues |-> <<>>],
      [kind |-> "json", approved |-> TRUE, quality_score |-> 40, issues |-> <<>>] }

InitConcurrent ==
    /\ mode = "concurrent" /\ constraints = "json"
    /\ employees \in PipeEmployeeLists \ {<<>>}
    /\ tasks = <<WithTaskId(PipeTask, 1)>>
    /\ phase = [i \in Runs |-> "PLAN"]
    /\ plan = [i \in Runs |-> <<>>]
    /\ stepIdx = [i \in Runs |-> 0]
    /\ passignments = [i \in Runs |-> <<>>]
    /\ metadata = [i \in Runs |-> None]
    /\ validation_result = [i \in Runs |-> None]
    /\ review = [i \in Runs |-> None]
    /\ response = [i \in Runs |-> NoResponse]
    /\ planAnswer = [i \in Runs |-> None]
    /\ lawAnswer = [i \in Runs |-> <<>>]
    /\ schedAnswer = [i \in Runs |-> <<>>]
    /\ reviewAnswer = [i \in Runs |-> None]
    /\ CoreIdle

\* Run i: create_plan returns, execute_plan starts (executor.py 23-30).
ConcPlan(i) ==
    /\ mode = "concurrent" /\ phase[i] = "PLAN"
    /\ \E answer \in ConcPlanAnswers :
          LET r == create_plan(answer) IN
          /\ planAnswer' = [planAnswer EXCEPT ![i] = answer]
          /\ plan' = [plan EXCEPT ![Frame(i)] = r.value.steps]
          /\ metadata' = [metadata EXCEPT ![Frame(i)] =
                             [plan_strategy |-> r.value.strategy,
                              steps_executed |-> <<>>, tool_calls |-> 0]]
    /\ phase' = [phase EXCEPT ![i] = "EXECUTE"]
    /\ stepIdx' = [stepIdx EXCEPT ![Frame(i)] = 1]
    /\ passignments' = [passignments EXCEPT ![Frame(i)] = <<>>]
    /\ validation_result' = [validation_result EXCEPT ![Frame(i)] = None]
    /\ UNCHANGED <<mode, employees, tasks, constraints, coreVars, lawAnswer, schedAnswer,
                   review, reviewAnswer, response>>

\* Run i: a lawyer step of execute_plan.
ConcLawyerStep(i) ==
    /\ mode = "concurrent" /\ phase[i] = "EXECUTE"
    /\ stepIdx[Frame(i)] <= Len(plan[Frame(i)])
    /\ plan[Frame(i)][stepIdx[Frame(i)]].tool = "lawyer"
    /\ \E answer \in ConcLawAnswers :
          LET result == validate_constraints(answer) IN
          /\ lawAnswer' = [lawAnswer EXCEPT ![i] = Append(@, answer)]
          /\ validation_result' = [validation_result EXCEPT ![Frame(i)] = result]
          /\ metadata' = [metadata EXCEPT
                 ![Frame(i)].steps_executed = Append(@,
                     [step |-> plan[Frame(i)][stepIdx[Frame(i)]].step_number,
                      tool |-> "lawyer",
                      result |-> IF result.is_valid THEN "valid" ELSE "invalid",
                      count |-> 0]),
                 ![Frame(i)].tool_calls = @ + 1]
    /\ stepIdx' = [stepIdx EXCEPT ![Frame(i)] = @ + 1]
    /\ UNCHANGED <<mode, employees, tasks, constraints, coreVars, phase, plan, planAnswer,
                   passignments, schedAnswer, review, reviewAnswer, response>>

\* Run i: a scheduler step of execute_plan.
ConcSchedulerStep(i) ==
    /\ mode = "concurrent" /\ phase[i] = "EXECUTE"
    /\ stepIdx[Frame(i)] <= Len(plan[Frame(i)])
    /\ plan[Frame(i)][stepIdx[Frame(i)]].tool = "scheduler"
    /\ \E answer \in ConcSchedAnswers :
          LET result == scheduler_generate_schedule(answer) IN
          /\ schedAnswer' = [schedAnswer EXCEPT ![i] = Append(@, answer)]
          /\ passignments' = [passignments EXCEPT ![Frame(i)] = result]
          /\ metadata' = [metadata EXCEPT
                 ![Frame(i)].steps_executed = Append(@,
                     [step |-> plan[Frame(i)][stepIdx[Frame(i)]].step_number,
                      tool |-> "scheduler",
                      result |-> "assignments", count |-> Len(result)]),
                 ![Frame(i)].tool_calls = @ + 1]
    /\ stepIdx' = [stepIdx EXCEPT ![Frame(i)] = @ + 1]
    /\ UNCHANGED <<mode, employees, tasks, constraints, coreVars, phase, plan, planAnswer,
                   validation_result, lawAnswer, review, reviewAnswer, response>>

\* Run i: execute_plan returns to process_schedule_request.
ConcExecuteDone(i) ==
    /\ mode = "concurrent" /\ phase[i] = "EXECUTE"
    /\ stepIdx[Frame(i)] > Len(plan[Frame(i)])
    /\ phase' = [phase EXCEPT ![i] = "REVIEW"]
    /\ UNCHANGED <<mode, employees, tasks, constraints, coreVars, plan, planAnswer, stepIdx,
                   passignments, metadata, validation_result, lawAnswer, schedAnswer,
                   review, reviewAnswer, response>>

\* Run i: review_schedule returns.
ConcReview(i) ==
    /\ mode = "concurrent" /\ phase[i] = "REVIEW"
    /\ \E answer \in ConcReviewAnswers :
          /\ reviewAnswer' = [reviewAnswer EXCEPT ![i] = answer]
          /\ review' = [review EXCEPT ![Frame(i)] = review_schedule(answer).value]
    /\ phase' = [phase EXCEPT ![i] = "CURATE"]
    /\ UNCHANGED <<mode, employees, tasks, constraints, coreVars, plan, planAnswer, stepIdx,
                   passignments, metadata, validation_result, lawAnswer, schedAnswer,
                   response>>

\* Run i: _curate_response; the response goes to the caller of run i.
ConcCurate(i) ==
    /\ mode = "concurrent" /\ phase[i] = "CURATE"
    /\ phase' = [phase EXCEPT ![i] = "CURATED"]
    /\ response' = [response EXCEPT ![i] =
           curate_response(passignments[Frame(i)], review[Frame(i)], metadata[Frame(i)])]
    /\ UNCHANGED <<mode, employees, tasks, constraints, coreVars, plan, planAnswer, stepIdx,
                   passignments, metadata, validation_result, lawAnswer, schedAnswer,
                   review, reviewAnswer>>

ConcNext ==
    \E i \in Runs :
        \/ ConcPlan(i) \/ ConcLawyerStep(i) \/ ConcSchedulerStep(i)
        \/ ConcExecuteDone(i) \/ ConcReview(i) \/ ConcCurate(i)

\* ------------------------------------- _create_fallback_schedule, applied
InitFallback ==
    /\ mode = "fallback" /\ constraints = "json"
    /\ employees \in EmployeeLists(EmployeeProfiles)
    /\ tasks \in TaskLists(TaskProfiles)
    /\ phase = "fallback" /\ PipeIdle
    /\ CoreIdle

FallbackSchedule ==
    /\ mode = "fallback" /\ phase = "fallback"
    /\ passignments' = create_fallback_schedule
    /\ phase' = "fallback_done"
    /\ UNCHANGED <<mode, employees, tasks, constraints, coreVars, plan, planAnswer, stepIdx,
                   metadata, validation_result, lawAnswer, schedAnswer, review,
                   reviewAnswer, response>>

\* ------------------------------------ Scheduler.generate_schedule, applied
\* to every answer of the scheduling oracle, malformed items included.
InitSchedule ==
    /\ mode = "schedule" /\ constraints = "json"
    /\ employees \in PipeEmployeeLists
    /\ tasks \in PipeTaskLists
    /\ schedAnswer \in SchedAnswersOver(ItemLists)
    /\ phase = "schedule"
    /\ plan = <<>> /\ planAnswer = None /\ stepIdx = 0
    /\ passignments = <<>> /\ metadata = None /\ validation_result = None
    /\ lawAnswer = None /\ review = None /\ reviewAnswer = None /\ response = NoResponse
    /\ CoreIdle

GenerateSchedule ==
    /\ mode = "schedule" /\ phase = "schedule"
    /\ passignments' = scheduler_generate_schedule(schedAnswer)
    /\ phase' = "schedule_done"
    /\ UNCHANGED <<mode, employees, tasks, constraints, coreVars, plan, planAnswer, stepIdx,
                   metadata, validation_result, lawAnswer, schedAnswer, review,
                   reviewAnswer, response>>

\* ------------------------------------------------- needed_staff, applied
\* to a task of every capacity figure, the zero required_capacity_per_staff
\* included.
CapacityTasks ==
    { WithTaskId([category |-> cat, start |-> 0, end |-> 2, customer_capacity |-> c,
                  required_capacity_per_staff |-> r, required_certifications |-> {}], 1) :
        cat \in {0, 3}, c \in 0..MaxCapacity, r \in 0..MaxPerStaff }

InitNeeded ==
    /\ mode = "needed_staff" /\ constraints = "json"
    /\ employees = <<>> /\ tasks = <<>>
    /\ task \in CapacityTasks
    /\ cpc = "call" /\ oracle = None /\ idx = 0 /\ needed = 0
    /\ assignments = <<>> /\ assigned_employees = {}
    /\ candidates = <<>> /\ preferred = <<>>
    /\ phase = "idle" /\ PipeIdle

\* validators.py 7-10: the value returned, or the ZeroDivisionError of the
\* floor division.
NeededStaff ==
    /\ mode = "needed_staff" /\ cpc = "call"
    /\ IF needed_staff_raises(task)
       THEN /\ cpc' = "ZeroDivisionError"
            /\ UNCHANGED needed
       ELSE /\ cpc' = "returned"
            /\ needed' = needed_staff(task)
    /\ UNCHANGED <<mode, employees, tasks, constraints, oracle, idx, task, assignments,
                   assigned_employees, candidates, preferred, pipeVars>>

\* ---------------------------------------------------------- specifications
\* The deterministic paths: the Allocation Engine and the fallback schedule.
Init == InitCore \/ InitFallback \/ InitSchedule \/ InitNeeded
Next == CoreNext \/ FallbackSchedule \/ GenerateSchedule \/ NeededStaff
Spec == Init /\ [][Next]_vars

\* The pipeline. Every advisory call returns or raises (the client's bounded
\* timeout) and the stages run one after the other: weak fairness of the step.
PipeSpec == InitPipe /\ [][PipeNext]_vars
\* Executor.execute_plan called with a plan and a request.
ExecSpec == InitExecute /\ [][ExecNext]_vars

FairPipeSpec == PipeSpec /\ WF_vars(PipeNext)

\* process_schedule_request called directly, without main.py in front.
OrchSpec == InitOrchestrate /\ [][OrchNext]_vars

\* Two requests in flight on the one Orchestrator of main.py.
ConcSpec == InitConcurrent /\ [][ConcNext]_vars

\* ------------------------------------------------------------------ claims
CoreRunning == mode = "core" /\ cpc \in {"head", "body", "committed", "done"}
Certifies(eid, tid) ==
    /\ eid \in EmployeeIds /\ tid \in TaskIds
    /\ TaskById(tid).required_certifications \subseteq EmployeeById(eid).certifications
NoDuplicates(s) == \A i, j \in DOMAIN s : i # j => s[i] # s[j]

\* C1: in the assignment map of core.generate_schedule no employee id is in
\* the lists of two distinct tasks whose intervals overlap, whatever the
\* oracle suggested.
C1_NoDoubleBooking ==
    CoreRunning =>
        \A t1, t2 \in Range(tasks) :
            (t1.task_id # t2.task_id /\ tasks_overlap(t1, t2)) =>
                Range(assignments[t1.task_id]) \cap Range(assignments[t2.task_id]) = {}

\* C1 witness: the oracle's list for the task just committed names an employee
\* who was committed to an earlier, overlapping task; the employee is not in
\* the new task's list.
C1_Witness ==
    /\ mode = "core" /\ cpc = "committed"
    /\ \E t1 \in Range(tasks) :
          /\ t1.task_id # task.task_id /\ tasks_overlap(t1, task)
          /\ \E i \in DOMAIN preferred :
                /\ preferred[i] \in Range(assignments[t1.task_id])
                /\ preferred[i] \notin Range(assignments[task.task_id])

\* C2: every (task, employee) pair of core.generate_schedule and of
\* _create_fallback_schedule has the task's required certifications among
\* the employee's certifications.
C2_CertificationClosure ==
    /\ CoreRunning =>
          \A tid \in DOMAIN assignments :
              \A eid \in Range(assignments[tid]) : Certifies(eid, tid)
    /\ (mode = "fallback" /\ phase = "fallback_done") =>
          \A a \in Range(passignments) : Certifies(a.employee_id, a.task_id)

\* C2 witness: the fallback schedule assigned a task that the employee first
\* in round-robin order is not certified for.
C2_Witness ==
    /\ mode = "fallback" /\ phase = "fallback_done"
    /\ passignments # <<>>
    /\ ~Certifies(employees[1].employee_id, passignments[1].task_id)
    /\ tasks[1].task_id = passignments[1].task_id

\* C3: after a schedule step whose oracle answered, every assignment kept has
\* an employee of the request's pool, a task of the request, and that employee
\* holds the task's required certifications.
C3_OracleValidated ==
    (/\ mode = "pipeline" /\ phase = "EXECUTE" /\ stepIdx > 1
     /\ plan[stepIdx - 1].tool = "scheduler"
     /\ schedAnswer.kind = "json") =>
        \A a \in Range(passignments) : Certifies(a.employee_id, a.task_id)

\* Two assignments of one employee to distinct tasks that overlap.
DoubleBooked(assigned) ==
    \E i, j \in DOMAIN assigned :
        /\ assigned[i].employee_id = assigned[j].employee_id
        /\ assigned[i].task_id # assigned[j].task_id
        /\ tasks_overlap(TaskById(assigned[i].task_id), TaskById(assigned[j].task_id))

\* C4: when the scheduling oracle call fails, the assignments returned by
\* Scheduler.generate_schedule never give one employee two overlapping tasks.
C4_FallbackNoDoubleBooking ==
    (/\ mode = "pipeline" /\ phase = "EXECUTE" /\ stepIdx > 1
     /\ plan[stepIdx - 1].tool = "scheduler"
     /\ schedAnswer.kind = "error") =>
        ~DoubleBooked(passignments)

\* C5: in the fallback schedule an employee assigned to a category-0 task is
\* assigned to no other task.
C5_FallbackVacationExclusive ==
    (mode = "fallback" /\ phase = "fallback_done") =>
        \A i, j \in DOMAIN passignments :
            (/\ TaskById(passignments[i].task_id).category = 0
             /\ passignments[i].employee_id = passignments[j].employee_id) =>
                passignments[i].task_id = passignments[j].task_id

\* C6: every task's list in the output of core.generate_schedule, and the
\* list just committed for a task, is no longer than needed_staff(task).
C6_HeadcountBound ==
    /\ (mode = "core" /\ cpc = "committed") =>
          Len(assignments[task.task_id]) <= needed_staff(task)
    /\ (mode = "core" /\ cpc = "done") =>
          \A t \in Range(tasks) : Len(assignments[t.task_id]) <= needed_staff(t)

\* C6 witness: the oracle named more candidates of the task than it needs.
C6_Witness ==
    /\ mode = "core" /\ cpc = "committed"
    /\ Cardinality({ i \in DOMAIN preferred :
                       \E k \in DOMAIN candidates :
                          candidates[k].employee_id = preferred[i] }) > needed
    /\ Len(assignments[task.task_id]) = needed

\* The ids the Allocation Engine's contract accepts from the oracle's list:
\* an id is accepted iff it is a candidate and the selection is not full; a
\* repeated id is dropped.
RECURSIVE AcceptedByContract(_, _, _, _)
AcceptedByContract(pref, candIds, n, selected) ==
    IF pref = <<>> THEN selected
    ELSE IF Head(pref) \in candIds /\ Head(pref) \notin Range(selected)
            /\ Len(selected) < n
         THEN AcceptedByContract(Tail(pref), candIds, n, Append(selected, Head(pref)))
         ELSE AcceptedByContract(Tail(pref), candIds, n, selected)

\* C7: the list committed for a task starts with the ids accepted from the
\* oracle's list (candidates only, up to capacity, repetitions dropped) and
\* no task's list holds the same employee id twice.
C7_SuggestionsUntrusted ==
    /\ (mode = "core" /\ cpc = "committed") =>
          LET candIds == { candidates[k].employee_id : k \in DOMAIN candidates }
              accepted == AcceptedByContract(preferred, candIds, needed, <<>>)
              selected == assignments[task.task_id]
          IN /\ Len(accepted) <= Len(selected)
             /\ SubSeq(selected, 1, Len(accepted)) = accepted
    /\ CoreRunning => \A tid \in DOMAIN assignments : NoDuplicates(assignments[tid])

Unparseable(answer) ==
    answer.kind = "garbage" \/ (answer.kind = "json" /\ ~ScoreValid(answer.quality_score))

Reviewed == mode = "pipeline" /\ phase \in {"CURATE", "CURATED"}

\* C9 as stated: whenever the review call fails or its answer cannot be
\* parsed, the review is approved with quality_score 0.5.
C9_FailOpenAlwaysHalf ==
    (Reviewed /\ (reviewAnswer.kind = "error" \/ Unparseable(reviewAnswer))) =>
        (review.approved /\ review.quality_score = 50)

\* C9 amended: the review is approved in both cases; quality_score is 0.5
\* when the call fails and 0.7 when its answer cannot be parsed.
C9_FailOpenReview ==
    /\ (Reviewed /\ reviewAnswer.kind = "error") =>
          (review.approved /\ review.quality_score = 50)
    /\ (Reviewed /\ Unparseable(reviewAnswer)) =>
          (review.approved /\ review.quality_score = 70)

\* C9 witness: the review call failed on a schedule that has assignments.
C9_Witness ==
    /\ Reviewed /\ reviewAnswer.kind = "error" /\ passignments # <<>>

\* C10: the curated response holds exactly the input assignments of
\* confidence >= 0.5, in order, when quality_score < 0.7, and the input
\* assignments unchanged when quality_score >= 0.7.
C10_CurationFilter ==
    (mode = "pipeline" /\ phase = "CURATED") =>
        LET AtLeastHalf(a) == a.confidence >= 50
        IN IF review.quality_score < 70
           THEN response.assignments = SelectSeq(passignments, AtLeastHalf)
           ELSE response.assignments = passignments

\* C10 witness: a low score removed a low-confidence assignment and kept
\* another one.
C10_Witness ==
    /\ mode = "pipeline" /\ phase = "CURATED"
    /\ review.quality_score < 70
    /\ response.assignments # <<>>
    /\ Len(response.assignments) < Len(passignments)

\* C11: the response's success is true iff the review approved and the
\* assignment list returned, after the low-confidence filter, is non-empty.
C11_SuccessFlag ==
    (mode = "pipeline" /\ phase = "CURATED") =>
        (response.success <=> (review.approved /\ response.assignments # <<>>))

\* C11 witness: an approved review of low score; every assignment was
\* filtered out and success is false.
C11_Witness ==
    /\ mode = "pipeline" /\ phase = "CURATED"
    /\ review.approved /\ passignments # <<>>
    /\ response.assignments = <<>> /\ ~response.success

\* C12: when execute_plan returns, metadata.steps_executed holds exactly one
\* entry per plan step, in plan order, whatever the tools of the steps.
C12_EveryStepRecorded ==
    (mode = "execute" /\ phase = "RETURNED") =>
        /\ Len(metadata.steps_executed) = Len(plan)
        /\ \A i \in DOMAIN plan :
              /\ metadata.steps_executed[i].step = plan[i].step_number
              /\ metadata.steps_executed[i].tool = plan[i].tool

\* A step of execute_plan is about to raise.
StepAboutToRaise ==
    /\ mode = "execute" /\ phase = "EXECUTE" /\ stepIdx <= Len(plan)
    /\ plan[stepIdx].tool \in {"lawyer", "scheduler"}
    /\ constraints = "unserialisable"

\* C13: a step that raises is recorded with its error in steps_executed, the
\* accumulated assignments are kept, the loop goes on to the next step, and
\* execute_plan returns only after the last step.
C13_FailingStepDoesNotStop ==
    /\ [][StepAboutToRaise =>
            /\ passignments' = passignments
            /\ phase' = "EXECUTE" /\ stepIdx' = stepIdx + 1
            /\ metadata'.steps_executed =
                  Append(metadata.steps_executed,
                         [step |-> plan[stepIdx].step_number,
                          tool |-> plan[stepIdx].tool, error |-> "TypeError"])]_vars
    /\ []((mode = "execute" /\ phase = "RETURNED") => stepIdx = Len(plan) + 1)

\* C13 witness: execute_plan returned from a plan whose first step raised and
\* whose later step was executed and recorded too.
C13_Witness ==
    /\ mode = "execute" /\ phase = "RETURNED" /\ constraints = "unserialisable"
    /\ Len(plan) >= 2 /\ Len(metadata.steps_executed) = Len(plan)
    /\ "error" \in DOMAIN metadata.steps_executed[1]
    /\ metadata.steps_executed[Len(plan)].step = plan[Len(plan)].step_number

\* C17: during execute_plan an assignment present in the accumulator after
\* one step is still present after every later step.
C17_AppendOnly ==
    [][(mode = "execute" /\ phase = "EXECUTE") =>
          \A i \in DOMAIN passignments :
              \E j \in DOMAIN passignments' : passignments'[j] = passignments[i]]_vars

\* A lawyer step of the pipeline has just returned its ValidationResult.
LawyerStepDone ==
    /\ mode = "pipeline" /\ phase = "EXECUTE" /\ stepIdx > 1
    /\ plan[stepIdx - 1].tool = "lawyer"

\* C14: when the advisory call of the validate step fails on an assignment
\* set that breaks no invariant, such as the empty set before scheduling,
\* validate_constraints returns is_valid = true with no violations.
C14_LocalBaseline ==
    (LawyerStepDone /\ lawAnswer = "error" /\ passignments = <<>>) =>
        (validation_result.is_valid /\ validation_result.violations = <<>>)

\* C15: when the scheduling oracle answers no text or text that is not JSON,
\* Scheduler.generate_schedule returns the fallback schedule of the request,
\* as it does when the oracle call fails.
C15_MalformedMeansFallback ==
    (/\ mode = "schedule" /\ phase = "schedule_done"
     /\ schedAnswer.kind \in {"none", "garbage"}) =>
        passignments = create_fallback_schedule

\* C16: every ValidationResult returned by validate_constraints has
\* is_valid = true iff its violations are empty.
C16_ValidIffNoViolations ==
    LawyerStepDone =>
        (validation_result.is_valid <=> validation_result.violations = <<>>)

\* The employees the Eligibility Filter's contract keeps for the task
\* under way: certified, and committed neither to a task that overlaps it nor
\* to the vacation task.
EligibleIds ==
    { e.employee_id : e \in
        { e \in Range(employees) :
            /\ task.required_certifications \subseteq e.certifications
            /\ \A t2 \in Range(tasks) :
                  (t2.task_id # task.task_id
                   /\ e.employee_id \in Range(assignments[t2.task_id])) =>
                      (~tasks_overlap(t2, task) /\ t2.task_id # 0) } }

\* C18: the candidate set the Allocation Engine uses for a task is exactly
\* the certified employees committed neither to an overlapping task nor to
\* the vacation task; commitment to a non-overlapping task excludes nobody.
C18_EligibilityFilter ==
    (mode = "core" /\ cpc = "body") =>
        { candidates[k].employee_id : k \in DOMAIN candidates } = EligibleIds

\* The selection of the task just committed was filled by the ranker alone:
\* no id of the oracle's list was a candidate.
FilledByRanker ==
    /\ mode = "core" /\ cpc = "committed"
    /\ \A i \in DOMAIN preferred :
          \A k \in DOMAIN candidates : candidates[k].employee_id # preferred[i]

\* The rank the contract gives an employee for a category: the index of the
\* category in the preferences, 999 when absent.
PreferenceRank(e, category) ==
    IF category \in Range(e.preferences) THEN PyIndex(e.preferences, category) ELSE 999

\* a is selected whenever b is, and earlier.
SelectedBefore(a, b, selected) ==
    (b.employee_id \in Range(selected)) =>
        /\ a.employee_id \in Range(selected)
        /\ PyIndex(selected, a.employee_id) < PyIndex(selected, b.employee_id)

\* C19: when a task is filled from the ranked candidates, a candidate who
\* lists task.category at a lower index is selected before one who lists it
\* at a higher index, and one who does not list it comes after all who do.
C19_PreferenceKey ==
    FilledByRanker =>
        \A a, b \in Range(candidates) :
            PreferenceRank(a, task.category) < PreferenceRank(b, task.category) =>
                SelectedBefore(a, b, assignments[task.task_id])

\* C20: candidates equal on preference rank, denied_requests_60_days and
\* previous_vacations_60_days are selected in ascending employee_id, whatever
\* their order in the employee list.
C20_TieBreakById ==
    FilledByRanker =>
        \A a, b \in Range(candidates) :
            (/\ PreferenceRank(a, task.category) = PreferenceRank(b, task.category)
             /\ a.denied_requests_60_days = b.denied_requests_60_days
             /\ a.previous_vacations_60_days = b.previous_vacations_60_days
             /\ a.employee_id < b.employee_id) =>
                SelectedBefore(a, b, assignments[task.task_id])

\* The output of a run without suggestions, as a function of the request
\* alone: the tasks in start order from position i, the map so far, the ids
\* committed so far.
RECURSIVE NoOracleOutput(_, _, _)
NoOracleOutput(i, acc, committed) ==
    IF i > Len(tasks) THEN [acc EXCEPT ![0] = <<>>]
    ELSE LET t == SortedTasks[i] IN
         IF t.task_id = 0 THEN NoOracleOutput(i + 1, acc, committed)
         ELSE LET selected == Select(t, <<>>, Candidates(t, committed), needed_staff(t),
                                     committed)
              IN NoOracleOutput(i + 1, [acc EXCEPT ![t.task_id] = selected],
                                committed \cup Range(selected))

\* C21: every run of core.generate_schedule without oracle suggestions ends
\* with the one assignment map its tasks and employees determine, employee
\* order inside each list included; two runs on one request cannot differ.
C21_FallbackDeterminism ==
    (mode = "core" /\ cpc = "done" /\ oracle = "none") =>
        assignments = NoOracleOutput(1, [tid \in TaskIds |-> <<>>], {})

\* C21 witness: a run without suggestions put two employees, in ranked order
\* and not in input order, on one task.
C21_Witness ==
    /\ mode = "core" /\ cpc = "done" /\ oracle = "none"
    /\ \E tid \in DOMAIN assignments :
          /\ Len(assignments[tid]) = 2
          /\ assignments[tid][1] = employees[2].employee_id
          /\ assignments[tid][2] = employees[1].employee_id

\* C22: without suggestions the task just committed holds exactly
\* min(needed_staff(task), number of its candidates) employees; when the
\* candidates are fewer than needed all of them are assigned.
C22_UnderFill ==
    (mode = "core" /\ cpc = "committed" /\ oracle = "none") =>
        /\ Len(assignments[task.task_id]) =
              (IF needed_staff(task) <= Len(candidates) THEN needed_staff(task)
               ELSE Len(candidates))
        /\ Len(candidates) < needed_staff(task) =>
              Range(assignments[task.task_id]) =
                  { candidates[k].employee_id : k \in DOMAIN candidates }

\* C22 witness: one candidate for a task that needs two; the candidate is
\* assigned and the task is committed.
C22_Witness ==
    /\ mode = "core" /\ cpc = "committed" /\ oracle = "none"
    /\ needed = 2 /\ Len(candidates) = 1
    /\ assignments[task.task_id] = <<candidates[1].employee_id>>

\* C23: core.generate_schedule never raises: whatever the non-empty task
\* list, the pool and the oracle's outcome, the run raises neither
\* StopIteration nor ZeroDivisionError and its map has one entry per task.
C23_NeverThrows ==
    (mode = "core" /\ tasks # <<>>) =>
        /\ cpc \notin {"StopIteration", "ZeroDivisionError"}
        /\ cpc = "done" => DOMAIN assignments = TaskIds

\* The least k with k * r >= c: the ceiling of c / r, for c >= 0 and r >= 1.
CeilDiv(c, r) == CHOOSE k \in 0..c : k * r >= c /\ \A j \in 0..(k - 1) : j * r < c

\* C24: for customer_capacity >= 0 and required_capacity_per_staff >= 1,
\* needed_staff returns required_capacity_per_staff when customer_capacity
\* is 0 and max(1, ceil(customer_capacity / required_capacity_per_staff))
\* otherwise.
C24_CapacityFormula ==
    (mode = "needed_staff" /\ cpc # "call" /\ task.required_capacity_per_staff >= 1) =>
        /\ cpc = "returned"
        /\ needed = IF task.customer_capacity = 0
                    THEN task.required_capacity_per_staff
                    ELSE Max2(1, CeilDiv(task.customer_capacity,
                                         task.required_capacity_per_staff))

\* C24 witness: a capacity that is no multiple of the capacity per staff is
\* rounded up: 7 customers at 3 per staff need 3.
C24_Witness ==
    /\ mode = "needed_staff" /\ cpc = "returned"
    /\ task.customer_capacity = 7 /\ task.required_capacity_per_staff = 3
    /\ needed = 3

\* C25: needed_staff on a task that is not the vacation category and whose
\* required_capacity_per_staff is 0 ends in a ConfigurationError, whatever
\* the customer_capacity: it returns no number and does not divide by zero.
C25_ZeroPerStaffIsConfigurationError ==
    (/\ mode = "needed_staff" /\ cpc # "call"
     /\ task.category # 0 /\ task.required_capacity_per_staff = 0) =>
        cpc = "ConfigurationError"

\* C26: without suggestions every task of category 0 has an empty list in
\* the output of core.generate_schedule, whatever its task_id.
C26_VacationNeverAutoFilled ==
    (mode = "core" /\ cpc = "done" /\ oracle = "none") =>
        \A t \in Range(tasks) : t.category = 0 => assignments[t.task_id] = <<>>

\* C27: neither core.generate_schedule nor _create_fallback_schedule places
\* an employee for whom can_assign_vacation is false in a category-0 task.
C27_VacationEligibility ==
    /\ (mode = "core" /\ cpc = "done") =>
          \A t \in Range(tasks) : t.category = 0 =>
              \A eid \in Range(assignments[t.task_id]) :
                  can_assign_vacation(EmployeeById(eid).previous_vacations_60_days)
    /\ (mode = "fallback" /\ phase = "fallback_done") =>
          \A a \in Range(passignments) : TaskById(a.task_id).category = 0 =>
              can_assign_vacation(EmployeeById(a.employee_id).previous_vacations_60_days)

\* The metadata keys a response must carry.
RequiredMetadataKeys == {"quality_score", "review_approved", "steps_executed", "tool_calls"}

\* C28: every response of process_schedule_request to a request with at
\* least one employee and one task carries the metadata keys quality_score,
\* review_approved, steps_executed and tool_calls.
C28_MetadataKeys ==
    (/\ mode = "orchestrate" /\ phase \in {"CURATED", "FAILED"}
     /\ employees # <<>> /\ tasks # <<>>) =>
        RequiredMetadataKeys \subseteq DOMAIN response.metadata

\* C29: a request with no employee or no task is rejected on receipt: it
\* enters no pipeline stage, no advisor is called for it and no response is
\* built.
C29_EmptyRequestRejected ==
    (mode = "pipeline" /\ (employees = <<>> \/ tasks = <<>>)) =>
        /\ phase \in {"received", "rejected"}
        /\ planAnswer = None /\ lawAnswer = None
        /\ schedAnswer = None /\ reviewAnswer = None
        /\ metadata = None /\ response = NoResponse

\* C29 witness: a request with employees and no task was rejected.
C29_Witness ==
    /\ mode = "pipeline" /\ phase = "rejected"
    /\ employees # <<>> /\ tasks = <<>>

\* C30: when the planning call fails or its answer is not JSON, the plan
\* that is executed has exactly two steps: step 1 of tool "lawyer", then
\* step 2 of tool "scheduler".
C30_FixedFallbackPlan ==
    (/\ mode = "pipeline" /\ phase \notin {"received", "rejected", "PLAN"}
     /\ planAnswer \in {"error", "none", "garbage"}) =>
        /\ Len(plan) = 2
        /\ plan[1].step_number = 1 /\ plan[1].tool = "lawyer"
        /\ plan[2].step_number = 2 /\ plan[2].tool = "scheduler"

\* C30 witness: the planning advisor answered text that is not JSON and the
\* executor is at the first step of the two-step plan.
C30_Witness ==
    /\ mode = "pipeline" /\ phase = "EXECUTE" /\ stepIdx = 1
    /\ planAnswer = "garbage" /\ Len(plan) = 2

\* C31: every assignment Scheduler.generate_schedule returns has a confidence
\* within [0, 1]; an oracle item whose confidence is outside never becomes an
\* Assignment; the assignments of the fallback schedule all carry the one
\* fixed confidence 0.6.
C31_ConfidenceInRange ==
    /\ (mode = "schedule" /\ phase = "schedule_done") =>
          /\ \A a \in Range(passignments) : a.confidence >= 0 /\ a.confidence <= 100
          /\ schedAnswer.kind = "error" =>
                \A a \in Range(passignments) : a.confidence = 60
    /\ (mode = "fallback" /\ phase = "fallback_done") =>
          \A a \in Range(passignments) : a.confidence = 60

\* C31 witness: the oracle's list held an item of confidence 1.5; nothing of
\* it was returned.
C31_Witness ==
    /\ mode = "schedule" /\ phase = "schedule_done" /\ schedAnswer.kind = "json"
    /\ \E i \in DOMAIN schedAnswer.items :
          /\ schedAnswer.items[i].shape = "assignment"
          /\ schedAnswer.items[i].confidence > 100
          /\ \A a \in Range(passignments) :
                a.employee_id # schedAnswer.items[i].employee_id

\* Assignment construction fails on the item: it is not an object, or its
\* confidence is outside [0, 1].
ConstructionFails(item) ==
    \/ item.shape = "notobject"
    \/ item.shape = "assignment" /\ (item.confidence < 0 \/ item.confidence > 100)

Coverable(t) ==
    \E e \in Range(employees) : t.required_certifications \subseteq e.certifications

\* C35: the fallback schedule holds exactly one assignment for every task
\* some employee of the pool is certified for and none for the other tasks,
\* whatever needed_staff(task).
C35_OnePerTask ==
    (mode = "fallback" /\ phase = "fallback_done") =>
        \A t \in Range(tasks) :
            Cardinality({ i \in DOMAIN passignments : passignments[i].task_id = t.task_id })
                = (IF Coverable(t) THEN 1 ELSE 0)

\* C35 witness: a task that needs two employees got one assignment, found by
\* the search past an uncertified employee.
C35_Witness ==
    /\ mode = "fallback" /\ phase = "fallback_done"
    /\ Len(passignments) = 1 /\ Len(employees) = 2
    /\ passignments[1].employee_id = employees[2].employee_id
    /\ TaskById(passignments[1].task_id).customer_capacity = 2
    /\ TaskById(passignments[1].task_id).required_capacity_per_staff = 1

\* A pipeline run has returned and every advisory call of it had failed.
AllAdvisorsFailed ==
    /\ mode = "pipeline" /\ phase = "CURATED"
    /\ planAnswer = "error" /\ lawAnswer = "error"
    /\ schedAnswer.kind = "error" /\ reviewAnswer.kind = "error"

\* C33: when the planner, lawyer, scheduler and reviewer calls all fail, the
\* response's success is true iff some task of the request has a certified
\* employee in the pool, and curation removes no fallback assignment although
\* the fail-open quality_score 0.5 is below the 0.7 threshold.
C33_FullDegradation ==
    AllAdvisorsFailed =>
        /\ review.quality_score = 50 /\ review.quality_score < 70
        /\ response.assignments = passignments
        /\ response.success <=> (\E t \in Range(tasks) : Coverable(t))

\* C33 witness: all four calls failed on a request with a certified employee;
\* the response is a success and holds the fallback assignments.
C33_Witness ==
    /\ AllAdvisorsFailed /\ response.success
    /\ response.assignments # <<>>
    /\ \A a \in Range(response.assignments) : a.confidence = 60

\* The run executes, or has executed, the fallback plan.
FallbackPlanRun ==
    /\ mode = "pipeline" /\ phase \in {"EXECUTE", "REVIEW", "CURATE", "CURATED"}
    /\ metadata.plan_strategy = "fallback"

\* The step being taken is a call of the compliance checker.
LawyerRuns ==
    /\ Len(metadata'.steps_executed) = Len(metadata.steps_executed) + 1
    /\ metadata'.steps_executed[Len(metadata'.steps_executed)].tool = "lawyer"

\* C36: under the fallback plan the compliance check runs once, as the first
\* step and over the empty assignment set; when the plan has been executed
\* the steps were the lawyer's and then the scheduler's, so the scheduler's
\* assignments reach review and curation without a compliance check.
C36_ValidateBeforeSchedule ==
    /\ [][(FallbackPlanRun /\ phase = "EXECUTE" /\ LawyerRuns) =>
            (passignments = <<>> /\ stepIdx = 1 /\ metadata.steps_executed = <<>>)]_vars
    /\ []((FallbackPlanRun /\ phase # "EXECUTE") =>
            /\ Len(metadata.steps_executed) = 2
            /\ metadata.steps_executed[1].tool = "lawyer"
            /\ metadata.steps_executed[2].tool = "scheduler")

\* C36 witness: the fallback plan was executed and the schedule step's
\* assignments are under review; the one validation had seen none of them.
C36_Witness ==
    /\ FallbackPlanRun /\ phase = "REVIEW"
    /\ passignments # <<>>
    /\ Len(metadata.steps_executed) = 2
    /\ metadata.steps_executed[1].tool = "lawyer"

\* execute_plan run alone on the steps, with the answers the run was given;
\* it goes as far as these answers reach.
RECURSIVE ExecuteAlone(_, _, _, _, _)
ExecuteAlone(steps, laws, scheds, assigned, meta) ==
    IF steps = <<>> THEN [assignments |-> assigned, metadata |-> meta]
    ELSE LET step == Head(steps) IN
         IF \/ step.tool = "lawyer" /\ laws = <<>>
            \/ step.tool = "scheduler" /\ scheds = <<>>
         THEN [assignments |-> assigned, metadata |-> meta]
         ELSE IF step.tool = "lawyer"
         THEN LET result == validate_constraints(Head(laws))
              IN ExecuteAlone(Tail(steps), Tail(laws), scheds, assigned,
                    [meta EXCEPT
                       !.steps_executed = Append(@,
                           [step |-> step.step_number, tool |-> "lawyer",
                            result |-> IF result.is_valid THEN "valid" ELSE "invalid",
                            count |-> 0]),
                       !.tool_calls = @ + 1])
         ELSE IF step.tool = "scheduler"
         THEN LET result == scheduler_generate_schedule(Head(scheds))
              IN ExecuteAlone(Tail(steps), laws, Tail(scheds), result,
                    [meta EXCEPT
                       !.steps_executed = Append(@,
                           [step |-> step.step_number, tool |-> "scheduler",
                            result |-> "assignments", count |-> Len(result)]),
                       !.tool_calls = @ + 1])
         ELSE ExecuteAlone(Tail(steps), laws, scheds, assigned, meta)

\* The response of run i had it run alone with the answers it was given.
ResponseAlone(i) ==
    LET p == create_plan(planAnswer[i]).value
        done == ExecuteAlone(p.steps, lawAnswer[i], schedAnswer[i], <<>>,
                             [plan_strategy |-> p.strategy, steps_executed |-> <<>>,
                              tool_calls |-> 0])
    IN curate_response(done.assignments, review_schedule(reviewAnswer[i]).value,
                       done.metadata)

\* C32: of two process_schedule_request runs interleaved at their advisory
\* calls, each returns the assignments, metadata, warnings and success it
\* would return alone with the same advisory answers.
C32_RequestsIsolated ==
    mode = "concurrent" =>
        \A i \in Runs : phase[i] = "CURATED" => response[i] = ResponseAlone(i)

\* C32 witness: the first run has returned while the second one is between
\* its two steps, and the two hold different assignments.
C32_Witness ==
    /\ mode = "concurrent"
    /\ phase[1] = "CURATED" /\ phase[2] = "EXECUTE"
    /\ stepIdx[2] = 2 /\ Len(plan[2]) = 2
    /\ response[1].assignments # passignments[2]
    /\ response[1].assignments # <<>> /\ passignments[2] # <<>>

====
